---------------------------- MODULE Spec2Model ----------------------------
(***************************************************************************)
(* Model of the Uncle Ben's Pizza backend: the settlement handler          *)
(* POST /api/paystack-callback (server.js), the reservation status         *)
(* listener (server.js) and the Hubtel SMS utility (sms.js).               *)
(*                                                                         *)
(* JavaScript values are records [t, n, s]: t is the type tag, n the       *)
(* number (fixed point, three decimals: the number x is n = x * 1000; for  *)
(* arrays n is the length; for booleans 1 or 0), s the string.  Products   *)
(* and comparisons are exact; IEEE-754 rounding error of the               *)
(* multiplication order.total * 100 is not modelled.                       *)
(***************************************************************************)
EXTENDS Integers, Sequences, FiniteSets, TLC

VARIABLES
    pc,            \* per request: position of the async handler
    request,       \* per request: req.body
    paystack,      \* per request: what the verification call produced
    verifyCalls,   \* per request: number of GETs issued to the processor
    insertCalls,   \* per request: number of inserts issued to the store
    pendingRow,    \* per request: the row handed to .insert(), <<>> if none
    responses,     \* per request: the HTTP responses sent, in order
    thrown,        \* per request: the error handed to next(err), "" if none
    storeResult,   \* per request: what the store answered to the insert
    orders,        \* the rows of the orders table
    hubtelConfigured, \* HUBTEL_CLIENT_ID, HUBTEL_CLIENT_SECRET and HUBTEL_FROM are all set
    rpc,           \* position of the reservation listener's callback
    event,         \* the change event being handled
    dispatchCalls, \* the calls sendHubtelSMS(to, message) made for the event
    httpPosts,     \* the POSTs issued to the Hubtel API for the event
    smsResult,     \* what sendHubtelSMS returned for the event
    hubtelAnswer,  \* what the Hubtel API answered to the POST
    raised,        \* an exception escaped the callback for the event
    phoneInput,    \* the argument of formatPhoneNumber
    formatted,     \* formatPhoneNumber(phoneInput), once computed
    reformatted    \* formatPhoneNumber(formatted), once computed

settlementVars == <<pc, request, paystack, verifyCalls, insertCalls, pendingRow,
                    responses, thrown, storeResult, orders>>

reactorVars == <<hubtelConfigured, rpc, event, dispatchCalls,
                 httpPosts, smsResult, hubtelAnswer, raised>>

formatVars == <<phoneInput, formatted, reformatted>>

vars == <<settlementVars, reactorVars, formatVars>>

-----------------------------------------------------------------------------
(* Bounds of the model *)

\* order.total ranges over -MaxTotalMilli..MaxTotalMilli thousandths
MaxTotalMilli == 15
\* data.amount ranges over 0..MaxPaidHalves half minor units
MaxPaidHalves == 6
\* number of concurrent callback requests in SpecConcurrent
NumConcurrent == 2
\* phone inputs carry up to MaxJunk characters that are not digits
MaxJunk == 2
\* arbitrary phone inputs have up to MaxShort characters
MaxShort == 3

-----------------------------------------------------------------------------
(* JavaScript values *)

Undefined == [t |-> "undefined", n |-> 0, s |-> ""]
Null      == [t |-> "null", n |-> 0, s |-> ""]
NaN       == [t |-> "nan", n |-> 0, s |-> ""]
Num(k)    == [t |-> "number", n |-> k, s |-> ""]
Str(x)    == [t |-> "string", n |-> 0, s |-> x]
Bool(b)   == [t |-> "boolean", n |-> IF b THEN 1 ELSE 0, s |-> ""]
Arr(len)  == [t |-> "array", n |-> len, s |-> ""]
Obj       == [t |-> "object", n |-> 0, s |-> ""]

\* one unit in the fixed-point representation of numbers
Unit == 1000

\* ToBoolean: undefined, null, NaN, 0, "" and false are falsy
Truthy(v) ==
    CASE v.t = "undefined" -> FALSE
      [] v.t = "null"      -> FALSE
      [] v.t = "nan"       -> FALSE
      [] v.t = "number"    -> v.n # 0
      [] v.t = "string"    -> v.s # ""
      [] v.t = "boolean"   -> v.n = 1
      [] OTHER             -> TRUE

\* ToNumber; the only strings of the model are non-numeric or empty
ToNumber(v) ==
    CASE v.t = "number"  -> v
      [] v.t = "null"    -> Num(0)
      [] v.t = "boolean" -> Num(v.n * Unit)
      [] v.t = "string"  -> IF v.s = "" THEN Num(0) ELSE NaN
      [] v.t = "array"   -> IF v.n = 0 THEN Num(0) ELSE NaN
      [] OTHER           -> NaN

\* v * 100
Times100(v) ==
    LET x == ToNumber(v) IN IF x.t = "nan" THEN NaN ELSE Num(x.n * 100)

\* Math.round: nearest integer, halves towards +infinity
MathRound(v) ==
    LET x == ToNumber(v)
    IN  IF x.t = "nan" THEN NaN ELSE Num(((x.n + (Unit \div 2)) \div Unit) * Unit)

\* a < b on non-string operands: false as soon as one side is NaN
LessThan(a, b) ==
    LET x == ToNumber(a)
        y == ToNumber(b)
    IN  x.t = "number" /\ y.t = "number" /\ x.n < y.n


-----------------------------------------------------------------------------
(* Inputs of the settlement handler *)

\* order absent from the body
NoOrder ==
    [present |-> FALSE, total |-> Undefined, items |-> Undefined,
     payment_reference |-> Undefined, status |-> Undefined, seen |-> Undefined]

TotalValues ==
    {Undefined, Str("abc")} \cup {Num(k) : k \in (0 - MaxTotalMilli)..MaxTotalMilli}

ItemsValues == {Undefined, Arr(0), Arr(1), Arr(2), Obj}

\* the order either carries no payment_reference/status/seen of its own or
\* carries all three with values of the client's choosing
OrderValues ==
    {NoOrder} \cup
    {[present |-> TRUE, total |-> t, items |-> i,
      payment_reference |-> IF own THEN Str("forged") ELSE Undefined,
      status |-> IF own THEN Str("delivered") ELSE Undefined,
      seen |-> IF own THEN Bool(TRUE) ELSE Undefined] :
        t \in TotalValues, i \in ItemsValues, own \in BOOLEAN}

ReferenceValues == {Undefined, Str(""), Str("ref1"), Str("ref2")}

RequestBodies == [reference : ReferenceValues, order : OrderValues]

\* the bodies of the concurrent specification: two references, one order
ConcurrentBodies ==
    {b \in RequestBodies :
        /\ Truthy(b.reference)
        /\ b.order.present
        /\ b.order.total = Num(10)
        /\ b.order.items = Arr(1)
        /\ b.order.status = Undefined}

AmountValues ==
    {Undefined, Null, Str("abc")} \cup
    {Num(h * (Unit \div 2)) : h \in 0..MaxPaidHalves}

NoData == [t |-> "undefined", status |-> Undefined, amount |-> Undefined]

DataValues ==
    {NoData, [NoData EXCEPT !.t = "null"]} \cup
    {[t |-> "object", status |-> st, amount |-> a] :
        st \in {Undefined, Str("failed"), Str("success")}, a \in AmountValues}

\* what `await fetch(...)` followed by `await paystackResponse.json()` yields:
\* a rejected fetch, a body that is no JSON, the JSON value null, or an object
VerifyOutcomes ==
    {[kind |-> k, status |-> Undefined, data |-> NoData] :
        k \in {"fetch-throws", "json-throws", "null"}} \cup
    {[kind |-> "object", status |-> st, data |-> d] :
        st \in {Undefined, Bool(FALSE), Bool(TRUE)}, d \in DataValues}

ConcurrentOutcomes ==
    {o \in VerifyOutcomes :
        /\ o.kind = "object"
        /\ o.status = Bool(TRUE)
        /\ o.data.t = "object"
        /\ o.data.status \in {Str("failed"), Str("success")}
        /\ o.data.amount \in {Num(0), Num(Unit)}}

NoOutcome == [kind |-> "none", status |-> Undefined, data |-> NoData]

\* what `await supabase.from('orders').insert(...).select().single()` yields
StoreResults == {"stored", "error", "throws"}

-----------------------------------------------------------------------------
(* The settlement handler, POST /api/paystack-callback *)

InvalidOrderMsg == "Invalid order data. Please try again."
VerificationFailedMsg == "Payment verification failed."
AmountMismatchMsg == "Payment amount mismatch. Contact support."
PersistFailedMsg ==
    "Your payment was successful, but we failed to save your order. Please contact support immediately."
InternalErrorMsg == "Internal Server Error"
OrderPlacedMsg == "Your order has been placed successfully!"

\* res.status(code).json({ ok: false, error })
ErrorResponse(code, error) ==
    [status |-> code, ok |-> FALSE, error |-> error, message |-> "", order |-> <<>>]

\* res.status(201).json({ ok: true, message, order: savedOrder })
SuccessResponse(savedOrder) ==
    [status |-> 201, ok |-> TRUE, error |-> "", message |-> OrderPlacedMsg,
     order |-> <<savedOrder>>]

\* !reference || !order || !order.total || !order.items || order.items.length === 0
InputInvalid(body) ==
    \/ ~Truthy(body.reference)
    \/ ~body.order.present
    \/ ~Truthy(body.order.total)
    \/ ~Truthy(body.order.items)
    \/ (body.order.items.t = "array" /\ body.order.items.n = 0)

\* the statements of the try block up to the insert that throw: a rejected
\* fetch or json(), a property read on the JSON value null, and
\* paystackData.data.status when status is truthy and data is undefined or null
VerifyThrows(out) ==
    \/ out.kind \in {"fetch-throws", "json-throws", "null"}
    \/ (Truthy(out.status) /\ out.data.t # "object")

\* mutant: only the top-level status flag is checked
PaymentRejectedFlagOnly(out) == ~Truthy(out.status)

\* !paystackData.status || paystackData.data.status !== 'success'
PaymentRejected(out) ==
    \/ ~Truthy(out.status)
    \/ out.data.status # Str("success")

\* Math.round(order.total * 100)
ExpectedAmountKobo(order) == MathRound(Times100(order.total))

\* mutant: the paid amount is compared with the total in major units
AmountMismatchUnscaled(out, order) ==
    LessThan(out.data.amount, order.total)

\* mutant: <= in place of <, an exact payment is rejected
AmountMismatchStrict(out, order) ==
    LET paid == ToNumber(out.data.amount)
        expected == ExpectedAmountKobo(order)
    IN  paid.t = "number" /\ expected.t = "number" /\ paid.n <= expected.n

\* paidAmountKobo < expectedAmountKobo
AmountMismatch(out, order) ==
    LessThan(out.data.amount, ExpectedAmountKobo(order))

\* mutant: the order's own payment_reference, status and seen are spread
\* after the handler's and win when present
InsertRowOrderWins(body) ==
    LET spread == [f \in {"total", "items", "payment_reference", "status", "seen"}
                     |-> body.order[f]]
        own(f, v) == IF spread[f] = Undefined THEN v ELSE spread[f]
    IN  [spread EXCEPT !.payment_reference = own("payment_reference", body.reference),
                       !.status = own("status", Str("received")),
                       !.seen = own("seen", Bool(FALSE))]

\* { ...order, payment_reference: reference, status: 'received', seen: false }
InsertRow(body) ==
    LET spread == [f \in {"total", "items", "payment_reference", "status", "seen"}
                     |-> body.order[f]]
    IN  [spread EXCEPT !.payment_reference = body.reference,
                       !.status = Str("received"),
                       !.seen = Bool(FALSE)]

\* the row as the store returns it from .select().single()
SavedOrder(row, id) == [id |-> id, row |-> row]

Respond(r, resp) == responses' = [responses EXCEPT ![r] = Append(@, resp)]

\* mutant: the middleware answers with the message of the error
ErrorMiddlewareLeaks(r, err) ==
    /\ thrown' = [thrown EXCEPT ![r] = err]
    /\ Respond(r, ErrorResponse(500, err))

\* mutant: the middleware records the error and sends nothing
ErrorMiddlewareSilent(r, err) ==
    /\ thrown' = [thrown EXCEPT ![r] = err]
    /\ UNCHANGED responses

\* catch (err) { next(err) } and the centralized error-handling middleware
ErrorMiddleware(r, err) ==
    /\ thrown' = [thrown EXCEPT ![r] = err]
    /\ Respond(r, ErrorResponse(500, InternalErrorMsg))

\* the handler from its entry to `await fetch(...)`
Callback(r, bodies) ==
    /\ pc[r] = "idle"
    /\ \E body \in bodies :
        /\ request' = [request EXCEPT ![r] = body]
        /\ IF InputInvalid(body)
           THEN /\ Respond(r, ErrorResponse(400, InvalidOrderMsg))
                /\ pc' = [pc EXCEPT ![r] = "done"]
                /\ UNCHANGED verifyCalls
           ELSE /\ verifyCalls' = [verifyCalls EXCEPT ![r] = @ + 1]
                /\ pc' = [pc EXCEPT ![r] = "awaitVerify"]
                /\ UNCHANGED responses
    /\ UNCHANGED <<paystack, insertCalls, pendingRow, thrown, storeResult, orders>>
    /\ UNCHANGED <<reactorVars, formatVars>>

\* mutant: a guard across requests, no insert for a reference already stored
VerifyDecisionGuarded(body, out) ==
    IF VerifyThrows(out) THEN "throw"
    ELSE IF PaymentRejected(out) THEN "rejected-payment"
    ELSE IF AmountMismatch(out, body.order) THEN "amount-mismatch"
    ELSE IF \E i \in 1..Len(orders) : orders[i].row.payment_reference = body.reference
         THEN "rejected-payment"
    ELSE "insert"

\* lines 60-74 of the handler: what it does with the answer of the processor
VerifyDecision(body, out) ==
    IF VerifyThrows(out) THEN "throw"
    ELSE IF PaymentRejected(out) THEN "rejected-payment"
    ELSE IF AmountMismatch(out, body.order) THEN "amount-mismatch"
    ELSE "insert"

\* mutant: the write error is reported as a client error
PersistFailedAsClientError == ErrorResponse(400, PersistFailedMsg)

\* the 500 answer to a write error reported by the store
PersistFailedResponse == ErrorResponse(500, PersistFailedMsg)

\* the handler from the answer of the processor to `await supabase...single()`
VerifyReturns(r, outcomes) ==
    /\ pc[r] = "awaitVerify"
    /\ \E out \in outcomes :
        LET decision == VerifyDecision(request[r], out)
        IN  /\ paystack' = [paystack EXCEPT ![r] = out]
            /\ CASE decision = "throw" ->
                    /\ ErrorMiddleware(r, out.kind)
                    /\ pc' = [pc EXCEPT ![r] = "done"]
                    /\ UNCHANGED <<insertCalls, pendingRow>>
                 [] decision = "rejected-payment" ->
                    /\ Respond(r, ErrorResponse(400, VerificationFailedMsg))
                    /\ pc' = [pc EXCEPT ![r] = "done"]
                    /\ UNCHANGED <<insertCalls, pendingRow, thrown>>
                 [] decision = "amount-mismatch" ->
                    /\ Respond(r, ErrorResponse(400, AmountMismatchMsg))
                    /\ pc' = [pc EXCEPT ![r] = "done"]
                    /\ UNCHANGED <<insertCalls, pendingRow, thrown>>
                 [] decision = "insert" ->
                    /\ insertCalls' = [insertCalls EXCEPT ![r] = @ + 1]
                    /\ pendingRow' = [pendingRow EXCEPT ![r] = <<InsertRow(request[r])>>]
                    /\ pc' = [pc EXCEPT ![r] = "awaitInsert"]
                    /\ UNCHANGED <<responses, thrown>>
    /\ UNCHANGED <<request, verifyCalls, storeResult, orders>>
    /\ UNCHANGED <<reactorVars, formatVars>>

\* the store executes the insert and the handler runs to its end
InsertReturns(r) ==
    /\ pc[r] = "awaitInsert"
    /\ \E result \in StoreResults :
        /\ storeResult' = [storeResult EXCEPT ![r] = result]
        /\ CASE result = "stored" ->
                 LET saved == SavedOrder(pendingRow[r][1], Len(orders) + 1)
                 IN  /\ orders' = Append(orders, saved)
                     /\ Respond(r, SuccessResponse(saved))
                     /\ UNCHANGED thrown
              [] result = "error" ->
                 /\ Respond(r, PersistFailedResponse)
                 /\ UNCHANGED <<orders, thrown>>
              [] result = "throws" ->
                 /\ ErrorMiddleware(r, "insert-throws")
                 /\ UNCHANGED orders
    /\ pc' = [pc EXCEPT ![r] = "done"]
    /\ UNCHANGED <<request, paystack, verifyCalls, insertCalls, pendingRow>>
    /\ UNCHANGED <<reactorVars, formatVars>>

-----------------------------------------------------------------------------
(* Strings of sms.js and of the reservation listener: a string is a        *)
(* sequence of one-character strings, so that trim, toLowerCase, replace   *)
(* and startsWith are computed character by character.  A value is         *)
(* [t, c]: t the type tag, c the characters (empty for non-strings).       *)

Text(c)   == [t |-> "string", c |-> c]
NoText(t) == [t |-> t, c |-> <<>>]

\* ToBoolean: the non-strings of the model are undefined, null, a non-zero
\* number, an object and a function
TruthyText(v) ==
    IF v.t = "string" THEN v.c # <<>> ELSE v.t \in {"number", "object", "function"}

IsSpace(ch) == ch \in {" ", "\t"}
IsDigit(ch) == ch \in {"0", "1", "2", "3", "4", "5", "6", "7", "8", "9"}
NotSpace(ch) == ~IsSpace(ch)

UpperCase == <<"A", "B", "C", "D", "E", "F", "G", "H", "I", "J", "K", "L", "M",
               "N", "O", "P", "Q", "R", "S", "T", "U", "V", "W", "X", "Y", "Z">>
LowerCase == <<"a", "b", "c", "d", "e", "f", "g", "h", "i", "j", "k", "l", "m",
               "n", "o", "p", "q", "r", "s", "t", "u", "v", "w", "x", "y", "z">>

LowerChar(ch) ==
    IF \E i \in 1..Len(UpperCase) : UpperCase[i] = ch
    THEN LowerCase[CHOOSE i \in 1..Len(UpperCase) : UpperCase[i] = ch]
    ELSE ch

\* String.prototype.toLowerCase
ToLowerCase(str) == [i \in 1..Len(str) |-> LowerChar(str[i])]

RECURSIVE TrimStart(_)
TrimStart(str) ==
    IF str # <<>> /\ IsSpace(Head(str)) THEN TrimStart(Tail(str)) ELSE str

RECURSIVE TrimEnd(_)
TrimEnd(str) ==
    IF str # <<>> /\ IsSpace(str[Len(str)])
    THEN TrimEnd(SubSeq(str, 1, Len(str) - 1))
    ELSE str

\* String.prototype.trim
Trim(str) == TrimEnd(TrimStart(str))

\* str.replace(/\s+/g, '')
RemoveWhitespace(str) == SelectSeq(str, NotSpace)

\* str.replace(/\D/g, '')
DigitsOnly(str) == SelectSeq(str, IsDigit)

\* String.prototype.startsWith
StartsWith(str, prefix) ==
    Len(str) >= Len(prefix) /\ SubSeq(str, 1, Len(prefix)) = prefix

\* String.prototype.substring(1)
Substring1(str) == SubSeq(str, 2, Len(str))

-----------------------------------------------------------------------------
(* sms.js *)

Plus233 == <<"+", "2", "3", "3">>

\* mutant: the leading 0 of a local number is kept behind +233
formatPhoneNumberKeepsZero(phoneNumber) ==
    IF ~TruthyText(phoneNumber) \/ phoneNumber.t # "string"
    THEN NoText("null")
    ELSE
    LET cleaned == RemoveWhitespace(Trim(phoneNumber.c))
        intlDigits == DigitsOnly(Substring1(cleaned))
        withoutZero == DigitsOnly(Substring1(cleaned))
        digitsOnly == DigitsOnly(cleaned)
    IN  IF cleaned = <<>> THEN NoText("null")
        ELSE IF /\ StartsWith(cleaned, Plus233)
                /\ Len(intlDigits) = 12
                /\ StartsWith(intlDigits, <<"2", "3", "3">>)
             THEN Text(cleaned)
        ELSE IF StartsWith(cleaned, <<"0">>) /\ Len(withoutZero) = 9
             THEN Text(Plus233 \o DigitsOnly(cleaned))
        ELSE IF StartsWith(cleaned, <<"2", "3", "3">>) /\ Len(cleaned) = 12
             THEN Text(<<"+">> \o cleaned)
        ELSE IF Len(digitsOnly) = 9
             THEN Text(Plus233 \o digitsOnly)
        ELSE Text(cleaned)

\* mutant: a leading 0 is replaced by +233 whatever follows it
formatPhoneNumberAnyLocal(phoneNumber) ==
    IF ~TruthyText(phoneNumber) \/ phoneNumber.t # "string"
    THEN NoText("null")
    ELSE
    LET cleaned == RemoveWhitespace(Trim(phoneNumber.c))
        intlDigits == DigitsOnly(Substring1(cleaned))
        withoutZero == DigitsOnly(Substring1(cleaned))
        digitsOnly == DigitsOnly(cleaned)
    IN  IF cleaned = <<>> THEN NoText("null")
        ELSE IF /\ StartsWith(cleaned, Plus233)
                /\ Len(intlDigits) = 12
                /\ StartsWith(intlDigits, <<"2", "3", "3">>)
             THEN Text(cleaned)
        ELSE IF StartsWith(cleaned, <<"0">>)
             THEN Text(Plus233 \o withoutZero)
        ELSE IF StartsWith(cleaned, <<"2", "3", "3">>) /\ Len(cleaned) = 12
             THEN Text(<<"+">> \o cleaned)
        ELSE IF Len(digitsOnly) = 9
             THEN Text(Plus233 \o digitsOnly)
        ELSE Text(cleaned)

\* mutant: an international number is returned as its digits
formatPhoneNumberDropsPlus(phoneNumber) ==
    IF ~TruthyText(phoneNumber) \/ phoneNumber.t # "string"
    THEN NoText("null")
    ELSE
    LET cleaned == RemoveWhitespace(Trim(phoneNumber.c))
        intlDigits == DigitsOnly(Substring1(cleaned))
        withoutZero == DigitsOnly(Substring1(cleaned))
        digitsOnly == DigitsOnly(cleaned)
    IN  IF cleaned = <<>> THEN NoText("null")
        ELSE IF /\ StartsWith(cleaned, Plus233)
                /\ Len(intlDigits) = 12
                /\ StartsWith(intlDigits, <<"2", "3", "3">>)
             THEN Text(intlDigits)
        ELSE IF StartsWith(cleaned, <<"0">>) /\ Len(withoutZero) = 9
             THEN Text(Plus233 \o withoutZero)
        ELSE IF StartsWith(cleaned, <<"2", "3", "3">>) /\ Len(cleaned) = 12
             THEN Text(<<"+">> \o cleaned)
        ELSE IF Len(digitsOnly) = 9
             THEN Text(Plus233 \o digitsOnly)
        ELSE Text(cleaned)

\* mutant: a local number is recognised by its length, not by its digits
formatPhoneNumberLocalByLength(phoneNumber) ==
    IF ~TruthyText(phoneNumber) \/ phoneNumber.t # "string"
    THEN NoText("null")
    ELSE
    LET cleaned == RemoveWhitespace(Trim(phoneNumber.c))
        intlDigits == DigitsOnly(Substring1(cleaned))
        withoutZero == DigitsOnly(Substring1(cleaned))
        digitsOnly == DigitsOnly(cleaned)
    IN  IF cleaned = <<>> THEN NoText("null")
        ELSE IF /\ StartsWith(cleaned, Plus233)
                /\ Len(intlDigits) = 12
                /\ StartsWith(intlDigits, <<"2", "3", "3">>)
             THEN Text(cleaned)
        ELSE IF StartsWith(cleaned, <<"0">>) /\ Len(Substring1(cleaned)) = 9
             THEN Text(Plus233 \o withoutZero)
        ELSE IF StartsWith(cleaned, <<"2", "3", "3">>) /\ Len(cleaned) = 12
             THEN Text(<<"+">> \o cleaned)
        ELSE IF Len(digitsOnly) = 9
             THEN Text(Plus233 \o digitsOnly)
        ELSE Text(cleaned)

\* mutant: an unrecognised number is returned with a + in front
formatPhoneNumberPlusFallback(phoneNumber) ==
    IF ~TruthyText(phoneNumber) \/ phoneNumber.t # "string"
    THEN NoText("null")
    ELSE
    LET cleaned == RemoveWhitespace(Trim(phoneNumber.c))
        intlDigits == DigitsOnly(Substring1(cleaned))
        withoutZero == DigitsOnly(Substring1(cleaned))
        digitsOnly == DigitsOnly(cleaned)
    IN  IF cleaned = <<>> THEN NoText("null")
        ELSE IF /\ StartsWith(cleaned, Plus233)
                /\ Len(intlDigits) = 12
                /\ StartsWith(intlDigits, <<"2", "3", "3">>)
             THEN Text(cleaned)
        ELSE IF StartsWith(cleaned, <<"0">>) /\ Len(withoutZero) = 9
             THEN Text(Plus233 \o withoutZero)
        ELSE IF StartsWith(cleaned, <<"2", "3", "3">>) /\ Len(cleaned) = 12
             THEN Text(<<"+">> \o cleaned)
        ELSE IF Len(digitsOnly) = 9
             THEN Text(Plus233 \o digitsOnly)
        ELSE Text(<<"+">> \o cleaned)

\* formatPhoneNumber(phoneNumber): a string, or null
formatPhoneNumber(phoneNumber) ==
    IF ~TruthyText(phoneNumber) \/ phoneNumber.t # "string"
    THEN NoText("null")
    ELSE
    LET cleaned == RemoveWhitespace(Trim(phoneNumber.c))
        intlDigits == DigitsOnly(Substring1(cleaned))
        withoutZero == DigitsOnly(Substring1(cleaned))
        digitsOnly == DigitsOnly(cleaned)
    IN  IF cleaned = <<>> THEN NoText("null")
        ELSE IF /\ StartsWith(cleaned, Plus233)
                /\ Len(intlDigits) = 12
                /\ StartsWith(intlDigits, <<"2", "3", "3">>)
             THEN Text(cleaned)
        ELSE IF StartsWith(cleaned, <<"0">>) /\ Len(withoutZero) = 9
             THEN Text(Plus233 \o withoutZero)
        ELSE IF StartsWith(cleaned, <<"2", "3", "3">>) /\ Len(cleaned) = 12
             THEN Text(<<"+">> \o cleaned)
        ELSE IF Len(digitsOnly) = 9
             THEN Text(Plus233 \o digitsOnly)
        ELSE Text(cleaned)

CredentialsError == "Hubtel credentials not configured"
InvalidPhoneError == "Invalid phone number"
EmptyMessageError == "Message cannot be empty"

Failure(error) == [success |-> FALSE, error |-> error]
Success == [success |-> TRUE, error |-> ""]
NoResult == [success |-> FALSE, error |-> "no result"]

\* mutant: the message is not validated before the request
SmsRequestAnyMessage(configured, to, message) ==
    LET formattedPhone == formatPhoneNumber(to)
    IN  IF ~configured
        THEN [post |-> FALSE, result |-> Failure(CredentialsError),
              To |-> <<>>, Content |-> <<>>]
        ELSE IF ~TruthyText(formattedPhone)
        THEN [post |-> FALSE, result |-> Failure(InvalidPhoneError),
              To |-> <<>>, Content |-> <<>>]
        ELSE [post |-> TRUE, result |-> NoResult,
              To |-> formattedPhone.c,
              Content |-> IF message.t = "string" THEN Trim(message.c) ELSE <<>>]

\* sendHubtelSMS(to, message) from its entry to `await fetch(...)`: the
\* failure result it returns without a request, or the payload it POSTs
SmsRequest(configured, to, message) ==
    LET formattedPhone == formatPhoneNumber(to)
    IN  IF ~configured
        THEN [post |-> FALSE, result |-> Failure(CredentialsError),
              To |-> <<>>, Content |-> <<>>]
        ELSE IF ~TruthyText(formattedPhone)
        THEN [post |-> FALSE, result |-> Failure(InvalidPhoneError),
              To |-> <<>>, Content |-> <<>>]
        ELSE IF ~TruthyText(message) \/ message.t # "string" \/ Len(Trim(message.c)) = 0
        THEN [post |-> FALSE, result |-> Failure(EmptyMessageError),
              To |-> <<>>, Content |-> <<>>]
        ELSE [post |-> TRUE, result |-> NoResult,
              To |-> formattedPhone.c, Content |-> Trim(message.c)]

\* what the POST yields: a rejected fetch, or a response whose ok flag says
\* 2xx and whose body is a JSON object (with or without a message), no JSON
\* at all, or the JSON value null
HubtelOutcomes ==
    {[kind |-> "fetch-throws", ok |-> FALSE, body |-> "none"]} \cup
    {[kind |-> "response", ok |-> ok, body |-> b] :
        ok \in BOOLEAN, b \in {"object", "message", "unparseable", "null"}}

\* no POST is answered yet
NoAnswer == [kind |-> "none", ok |-> FALSE, body |-> "none"]

\* sendHubtelSMS from the answer of the provider to its return
SmsResult(out) ==
    IF out.kind = "fetch-throws" THEN Failure("network error")
    ELSE IF out.body = "null" THEN Failure("TypeError")
    ELSE IF ~out.ok
         THEN Failure(IF out.body = "message" THEN "provider message" ELSE "HTTP status")
    ELSE Success

ConfirmedMessage ==
    <<"Y", "o", "u", "r", " ", "r", "e", "s", "e", "r", "v", "a", "t", "i",
      "o", "n", " ", "h", "a", "s", " ", "b", "e", "e", "n", " ", "c", "o",
      "n", "f", "i", "r", "m", "e", "d", ".", " ", "W", "e", " ", "l", "o",
      "o", "k", " ", "f", "o", "r", "w", "a", "r", "d", " ", "t", "o", " ",
      "s", "e", "r", "v", "i", "n", "g", " ", "y", "o", "u", "!">>

CompletedMessage ==
    <<"Y", "o", "u", "r", " ", "r", "e", "s", "e", "r", "v", "a", "t", "i",
      "o", "n", " ", "h", "a", "s", " ", "b", "e", "e", "n", " ", "c", "o",
      "m", "p", "l", "e", "t", "e", "d", ".", " ", "T", "h", "a", "n", "k",
      " ", "y", "o", "u", " ", "f", "o", "r", " ", "c", "h", "o", "o", "s",
      "i", "n", "g", " ", "u", "s", "!">>

CancelledMessage ==
    <<"Y", "o", "u", "r", " ", "r", "e", "s", "e", "r", "v", "a", "t", "i",
      "o", "n", " ", "h", "a", "s", " ", "b", "e", "e", "n", " ", "c", "a",
      "n", "c", "e", "l", "l", "e", "d", ".", " ", "I", "f", " ", "t", "h",
      "i", "s", " ", "w", "a", "s", " ", "n", "o", "t", " ", "y", "o", "u",
      ",", " ", "p", "l", "e", "a", "s", "e", " ", "c", "o", "n", "t", "a",
      "c", "t", " ", "u", "s", ".">>

-----------------------------------------------------------------------------
(* The reservation status listener, setupReservationStatusListener *)

\* the status and phone strings of the model
CONFIRMED == <<"c", "o", "n", "f", "i", "r", "m", "e", "d">>
UCONFIRMED == <<"C", "o", "n", "f", "i", "r", "m", "e", "d">>
PADCONFIRMED == <<" ", "C", "O", "N", "F", "I", "R", "M", "E", "D", " ">>
COMPLETED == <<"c", "o", "m", "p", "l", "e", "t", "e", "d">>
CANCELLED == <<"c", "a", "n", "c", "e", "l", "l", "e", "d">>
PADCANCELLED == <<"\t", "C", "a", "n", "c", "e", "l", "l", "e", "d", " ", " ">>
PENDING == <<"p", "e", "n", "d", "i", "n", "g">>
ARCHIVED == <<"a", "r", "c", "h", "i", "v", "e", "d">>
CONSTRUCTOR == <<"c", "o", "n", "s", "t", "r", "u", "c", "t", "o", "r">>
PROTO == <<"_", "_", "p", "r", "o", "t", "o", "_", "_">>
PHONE_LOCAL0 == <<"0", "2", "4", "4", "0", "0", "0", "0", "0", "0">>
PHONE_SPACED == <<" ", "0", "2", "4", " ", "4", "0", "0", " ", "0", "0", "0", "0", " ">>
PHONE_INTL == <<"+", "2", "3", "3", "2", "4", "4", "0", "0", "0", "0", "0", "0">>
PHONE_233 == <<"2", "3", "3", "2", "4", "4", "0", "0", "0", "0", "0", "0">>
PHONE_9 == <<"2", "4", "4", "0", "0", "0", "0", "0", "0">>
PHONE_SHORT == <<"1", "2", "3", "4", "5">>
PHONE_DASHED == <<"0", "2", "4", "-", "4", "0", "0", "-", "0", "0", "0", "0">>

\* statusMessages[key]: the three own properties, and what the object
\* literal inherits from Object.prototype under an all-lowercase name
StatusMessages(key) ==
    CASE key = CONFIRMED -> Text(ConfirmedMessage)
      [] key = COMPLETED -> Text(CompletedMessage)
      [] key = CANCELLED -> Text(CancelledMessage)
      [] key = CONSTRUCTOR -> NoText("function")
      [] key = PROTO -> NoText("object")
      [] OTHER -> NoText("undefined")

StatusValues ==
    {NoText("undefined"), NoText("number"), Text(<<" ", " ">>),
     Text(CONFIRMED), Text(PADCONFIRMED), Text(COMPLETED), Text(PADCANCELLED),
     Text(ARCHIVED), Text(CONSTRUCTOR)}

OldStatusValues ==
    {NoText("undefined"), NoText("number"), Text(PENDING), Text(CONFIRMED),
     Text(UCONFIRMED)}

PhoneValues ==
    {NoText("undefined"), NoText("number"), Text(<<" ", "\t">>),
     Text(PHONE_LOCAL0), Text(PHONE_SPACED), Text(PHONE_INTL), Text(PHONE_SHORT)}

\* a change event { old, new }; old and new may be missing altogether
EventValues ==
    [hasOld : {TRUE}, hasNew : {TRUE},
     oldStatus : OldStatusValues, newStatus : StatusValues, phone : PhoneValues]
    \cup
    [hasOld : {FALSE}, hasNew : {TRUE},
     oldStatus : {NoText("undefined")}, newStatus : StatusValues, phone : PhoneValues]
    \cup
    [hasOld : BOOLEAN, hasNew : {FALSE},
     oldStatus : {NoText("undefined")}, newStatus : {NoText("undefined")},
     phone : {NoText("undefined")}]

NoEvent ==
    [hasOld |-> FALSE, hasNew |-> FALSE, oldStatus |-> NoText("undefined"),
     newStatus |-> NoText("undefined"), phone |-> NoText("undefined")]

\* payload.x?.f || null
OrNull(has, v) == IF has /\ TruthyText(v) THEN v ELSE NoText("null")

\* v?.toLowerCase()?.trim(): undefined for null, the normalized string for a
\* string; a truthy non-string has no toLowerCase (see NormalizeThrows)
Normalize(v) ==
    IF v.t = "string" THEN Text(Trim(ToLowerCase(v.c))) ELSE NoText("undefined")

NormalizeThrows(v) == v.t \notin {"string", "null", "undefined"}

\* !normalizedNewStatus || !statusMessages[normalizedNewStatus]
NotTracked(normalizedNewStatus) ==
    \/ ~TruthyText(normalizedNewStatus)
    \/ ~TruthyText(StatusMessages(normalizedNewStatus.c))

\* !phoneNumber || typeof phoneNumber !== 'string' || phoneNumber.trim().length === 0
PhoneInvalid(phoneNumber) ==
    \/ ~TruthyText(phoneNumber)
    \/ phoneNumber.t # "string"
    \/ Len(Trim(phoneNumber.c)) = 0

\* mutant: the old and the new status are compared as delivered, without
\* normalization
ListenerDecisionRaw(ev) ==
    LET oldStatus == OrNull(ev.hasOld, ev.oldStatus)
        newStatus == OrNull(ev.hasNew, ev.newStatus)
        phoneNumber == OrNull(ev.hasNew, ev.phone)
    IN  IF ~ev.hasNew THEN "raise"
        ELSE IF NormalizeThrows(newStatus) THEN "skip"
        ELSE IF NotTracked(Normalize(newStatus)) THEN "skip"
        ELSE IF NormalizeThrows(oldStatus) THEN "skip"
        ELSE IF oldStatus = newStatus THEN "skip"
        ELSE IF PhoneInvalid(phoneNumber) THEN "skip"
        ELSE "send"

\* the callback up to its call of sendHubtelSMS: "raise" when the read of
\* payload.new.id before the try block throws, "skip" when it returns or
\* catches without a call, "send" when it calls sendHubtelSMS
ListenerDecision(ev) ==
    LET oldStatus == OrNull(ev.hasOld, ev.oldStatus)
        newStatus == OrNull(ev.hasNew, ev.newStatus)
        phoneNumber == OrNull(ev.hasNew, ev.phone)
    IN  IF ~ev.hasNew THEN "raise"
        ELSE IF NormalizeThrows(newStatus) THEN "skip"
        ELSE IF NotTracked(Normalize(newStatus)) THEN "skip"
        ELSE IF NormalizeThrows(oldStatus) THEN "skip"
        ELSE IF Normalize(oldStatus) = Normalize(newStatus) THEN "skip"
        ELSE IF PhoneInvalid(phoneNumber) THEN "skip"
        ELSE "send"

\* the arguments of the call sendHubtelSMS(phoneNumber, message)
DispatchArgs(ev) ==
    [to |-> ev.phone,
     message |-> StatusMessages(Normalize(ev.newStatus).c)]

\* the callback from its entry to its end or to the `await fetch(...)` inside
\* sendHubtelSMS: whether an exception escaped, the calls of sendHubtelSMS it
\* made, the POSTs issued, the result obtained so far and where it stands
ListenerRun(ev, configured) ==
    LET decision == ListenerDecision(ev)
        call == DispatchArgs(ev)
        sms == SmsRequest(configured, call.to, call.message)
    IN  [raised |-> (decision = "raise"),
         dispatchCalls |-> IF decision = "send" THEN <<call>> ELSE <<>>,
         httpPosts |-> IF decision = "send" /\ sms.post
                       THEN <<[To |-> sms.To, Content |-> sms.Content]>>
                       ELSE <<>>,
         smsResult |-> IF decision = "send" /\ ~sms.post THEN sms.result ELSE NoResult,
         rpc |-> IF decision = "send" /\ sms.post THEN "awaitSms" ELSE "idle"]

\* ListenerRun tabulated over the events of the model
ListenerRuns ==
    [ev \in EventValues, configured \in BOOLEAN |-> ListenerRun(ev, configured)] @@ <<>>

\* the subscription delivers an UPDATE; the callback runs to its end or to
\* the `await fetch(...)` inside sendHubtelSMS
DeliverEvent ==
    /\ rpc = "idle"
    /\ \E ev \in EventValues :
        LET run == ListenerRuns[ev, hubtelConfigured]
        IN  /\ event' = ev
            /\ raised' = run.raised
            /\ dispatchCalls' = run.dispatchCalls
            /\ httpPosts' = run.httpPosts
            /\ smsResult' = run.smsResult
            /\ rpc' = run.rpc
    /\ hubtelAnswer' = NoAnswer
    /\ UNCHANGED hubtelConfigured
    /\ UNCHANGED <<settlementVars, formatVars>>

\* the provider answers; sendHubtelSMS returns and the callback logs the result
HubtelReturns ==
    /\ rpc = "awaitSms"
    /\ \E out \in HubtelOutcomes :
        /\ hubtelAnswer' = out
        /\ smsResult' = SmsResult(out)
    /\ rpc' = "idle"
    /\ UNCHANGED <<hubtelConfigured, event, dispatchCalls, httpPosts, raised>>
    /\ UNCHANGED <<settlementVars, formatVars>>

InitReactor ==
    /\ hubtelConfigured \in BOOLEAN
    /\ rpc = "idle"
    /\ event = NoEvent
    /\ dispatchCalls = <<>>
    /\ httpPosts = <<>>
    /\ smsResult = NoResult
    /\ hubtelAnswer = NoAnswer
    /\ raised = FALSE


\* formatPhoneNumber is not being exercised
NotComputed == NoText("not computed")

InitNoFormat ==
    /\ phoneInput = NoText("undefined")
    /\ formatted = NotComputed
    /\ reformatted = NotComputed

InitRequests(reqs) ==
    /\ pc = [r \in reqs |-> "idle"]
    /\ request = [r \in reqs |-> [reference |-> Undefined, order |-> NoOrder]]
    /\ paystack = [r \in reqs |-> NoOutcome]
    /\ verifyCalls = [r \in reqs |-> 0]
    /\ insertCalls = [r \in reqs |-> 0]
    /\ pendingRow = [r \in reqs |-> <<>>]
    /\ responses = [r \in reqs |-> <<>>]
    /\ thrown = [r \in reqs |-> ""]
    /\ storeResult = [r \in reqs |-> "none"]
    /\ orders = <<>>

Requests == DOMAIN pc

\* one callback request, every body and every answer of processor and store
Init == InitRequests({1}) /\ InitReactor /\ InitNoFormat

Next ==
    \/ \E r \in Requests : Callback(r, RequestBodies)
    \/ \E r \in Requests : VerifyReturns(r, VerifyOutcomes)
    \/ \E r \in Requests : InsertReturns(r)

Spec == Init /\ [][Next]_vars

\* one callback request whose outbound calls, to the processor and to the
\* store, eventually return or throw
SpecLive ==
    /\ Init
    /\ [][Next]_vars
    /\ WF_vars(VerifyReturns(1, VerifyOutcomes))
    /\ WF_vars(InsertReturns(1))

\* NumConcurrent callback requests for the same reference, interleaved at
\* their awaits
InitConcurrent == InitRequests(1..NumConcurrent) /\ InitReactor /\ InitNoFormat

NextConcurrent ==
    \/ \E r \in Requests : Callback(r, ConcurrentBodies)
    \/ \E r \in Requests : VerifyReturns(r, ConcurrentOutcomes)
    \/ \E r \in Requests : InsertReturns(r)

SpecConcurrent == InitConcurrent /\ [][NextConcurrent]_vars

\* no callback request; change events delivered to the reservation listener
InitListener == InitRequests({}) /\ InitReactor /\ InitNoFormat

NextListener ==
    \/ DeliverEvent
    \/ HubtelReturns

SpecListener == InitListener /\ [][NextListener]_vars

\* arguments of a direct call sendHubtelSMS(to, message)
SmsToValues ==
    PhoneValues \cup {NoText("null"), NoText("object"), Text(<<>>)}

SmsMessageValues ==
    {NoText("undefined"), NoText("null"), NoText("number"), Text(<<>>),
     Text(<<" ", "\t">>), Text(<<"h", "i">>), Text(<<" ", "h", "i", " ">>)}

\* sendHubtelSMS(to, message) is called; it returns a failure at once or
\* runs to its `await fetch(...)`
CallSendHubtelSMS ==
    /\ rpc = "idle"
    /\ \E to \in SmsToValues, message \in SmsMessageValues :
        LET sms == SmsRequest(hubtelConfigured, to, message)
        IN  /\ dispatchCalls' = <<[to |-> to, message |-> message]>>
            /\ httpPosts' = IF sms.post
                            THEN <<[To |-> sms.To, Content |-> sms.Content]>>
                            ELSE <<>>
            /\ smsResult' = sms.result
            /\ rpc' = IF sms.post THEN "awaitSms" ELSE "idle"
    /\ hubtelAnswer' = NoAnswer
    /\ raised' = FALSE
    /\ UNCHANGED <<hubtelConfigured, event>>
    /\ UNCHANGED <<settlementVars, formatVars>>

\* no callback request and no change event; sendHubtelSMS called directly
InitDispatcher == InitRequests({}) /\ InitReactor /\ InitNoFormat

NextDispatcher ==
    \/ CallSendHubtelSMS
    \/ HubtelReturns

SpecDispatcher == InitDispatcher /\ [][NextDispatcher]_vars

\* nine-digit national numbers: every three-digit beginning over 0, 2, 3
\* (so 0.., 233.. and 2.. occur), followed by six digits over 0 and 3
NationalNumbers ==
    {p \o q : p \in [1..3 -> {"0", "2", "3"}], q \in [1..6 -> {"0", "3"}]}

\* a 0 followed by nine to 9 + MaxJunk characters, each a digit or a dash
LocalMixed ==
    {<<"0">> \o w : w \in UNION {[1..n -> {"2", "-"}] : n \in 9..(9 + MaxJunk)}}

\* 233 followed by nine characters, each a digit or a letter
Mixed233 == {<<"2", "3", "3">> \o w : w \in [1..9 -> {"4", "a"}]}

\* every string of up to MaxShort characters over digits, +, - and space
ShortStrings ==
    UNION {[1..n -> {"0", "2", "+", "-", " "}] : n \in 0..MaxShort}

\* the arguments formatPhoneNumber is applied to
PhoneInputs ==
    {NoText("undefined"), NoText("null"), NoText("number")} \cup
    {Text(d) : d \in NationalNumbers} \cup
    {Text(Plus233 \o d) : d \in NationalNumbers} \cup
    {Text(<<"0">> \o d) : d \in NationalNumbers} \cup
    {Text(w) : w \in LocalMixed \cup Mixed233 \cup ShortStrings} \cup
    {Text(PHONE_SPACED), Text(PHONE_DASHED), Text(PHONE_233), Text(PHONE_9),
     Text(PHONE_SHORT), Text(<<" ">> \o PHONE_INTL \o <<"\t">>)}

\* formatPhoneNumber(phoneInput) is evaluated
Format ==
    /\ formatted = NotComputed
    /\ formatted' = formatPhoneNumber(phoneInput)
    /\ UNCHANGED <<phoneInput, reformatted>>
    /\ UNCHANGED <<settlementVars, reactorVars>>

\* formatPhoneNumber is evaluated on its own result
Reformat ==
    /\ formatted # NotComputed
    /\ reformatted = NotComputed
    /\ reformatted' = formatPhoneNumber(formatted)
    /\ UNCHANGED <<phoneInput, formatted>>
    /\ UNCHANGED <<settlementVars, reactorVars>>

\* formatPhoneNumber applied to every input of the model, then to its result
InitFormat ==
    /\ InitRequests({})
    /\ InitReactor
    /\ hubtelConfigured
    /\ phoneInput \in PhoneInputs
    /\ formatted = NotComputed
    /\ reformatted = NotComputed

NextFormat ==
    \/ Format
    \/ Reformat

SpecFormat == InitFormat /\ [][NextFormat]_vars

-----------------------------------------------------------------------------
(* Properties of the settlement handler *)

\* the request was validated and the processor answered with a JSON object
Answered(r) == pc[r] \in {"awaitInsert", "done"} /\ paystack[r].kind = "object"

\* the answer passes the status checks: status flag truthy, data.status "success"
StatusChecksPass(r) ==
    /\ Answered(r)
    /\ paystack[r].status = Bool(TRUE)
    /\ paystack[r].data.t = "object"
    /\ paystack[r].data.status = Str("success")

\* round(order.total * 100) in minor units, stated without Math.round: the
\* integer e with e - 1/2 <= total * 100 < e + 1/2
RoundedKobo(total) ==
    CHOOSE e \in (0 - 2 * MaxTotalMilli)..(2 * MaxTotalMilli) :
        /\ 2 * e * Unit - Unit <= 2 * total.n * 100
        /\ 2 * total.n * 100 < 2 * e * Unit + Unit

NumericAmounts(r) ==
    /\ request[r].order.total.t = "number"
    /\ paystack[r].data.amount.t = "number"

Underpaid(r) ==
    /\ NumericAmounts(r)
    /\ paystack[r].data.amount.n < RoundedKobo(request[r].order.total) * Unit

PaidInFull(r) ==
    /\ NumericAmounts(r)
    /\ paystack[r].data.amount.n >= RoundedKobo(request[r].order.total) * Unit

\* C1: a request whose processor answer reports a paid amount below
\* round(order.total * 100) never issues an insert; when that answer passes
\* the status checks the request ends with the single response 400 'Payment
\* amount mismatch'; an amount equal to or above the expected one is never
\* answered with the amount-mismatch response.
C1_UnderpaymentRejected ==
    \A r \in Requests :
        /\ (Answered(r) /\ Underpaid(r)) =>
               /\ insertCalls[r] = 0
               /\ pendingRow[r] = <<>>
               /\ orders = <<>>
        /\ (StatusChecksPass(r) /\ Underpaid(r)) =>
               /\ pc[r] = "done"
               /\ responses[r] = <<ErrorResponse(400, AmountMismatchMsg)>>
        /\ (StatusChecksPass(r) /\ PaidInFull(r)) =>
               /\ insertCalls[r] = 1
               /\ \A i \in 1..Len(responses[r]) :
                      responses[r][i].error # AmountMismatchMsg

C1_Witness ==
    \E r \in Requests :
        /\ StatusChecksPass(r)
        /\ Underpaid(r)
        /\ request[r].order.total = Num(15)
        /\ paystack[r].data.amount = Num(Unit)
        /\ responses[r] = <<ErrorResponse(400, AmountMismatchMsg)>>

\* reference present, items a non-empty array, total a positive number
ValidRequest(r) ==
    /\ request[r].reference.t = "string" /\ request[r].reference.s # ""
    /\ request[r].order.present
    /\ request[r].order.items.t = "array" /\ request[r].order.items.n > 0
    /\ request[r].order.total.t = "number" /\ request[r].order.total.n > 0

\* the paid amount is absent or is no integer
AmountMalformed(r) ==
    \/ paystack[r].data.amount.t # "number"
    \/ paystack[r].data.amount.n % Unit # 0

\* C2: when a valid request's answer passes the status checks and its paid amount is
\* absent or not an integer, the request never issues an insert and is never
\* answered 201.
C2_MalformedAmountIsError ==
    \A r \in Requests :
        (ValidRequest(r) /\ StatusChecksPass(r) /\ AmountMalformed(r)) =>
            /\ insertCalls[r] = 0
            /\ \A i \in 1..Len(responses[r]) : responses[r][i].status # 201

\* the request has been handled up to its first await or to its answer
Handled(r) == pc[r] # "idle"

\* reference missing, items empty, or total zero or negative
InputUnacceptable(r) ==
    \/ request[r].reference \in {Undefined, Str("")}
    \/ request[r].order.items = Arr(0)
    \/ (request[r].order.total.t = "number" /\ request[r].order.total.n <= 0)

\* C3: a request whose reference is missing, whose items are empty or whose
\* total is zero or negative ends with the single response 400 'Invalid order
\* data' and issues neither a verification call nor an insert.
C3_InvalidInputRejected ==
    \A r \in Requests :
        (Handled(r) /\ InputUnacceptable(r)) =>
            /\ pc[r] = "done"
            /\ responses[r] = <<ErrorResponse(400, InvalidOrderMsg)>>
            /\ verifyCalls[r] = 0
            /\ insertCalls[r] = 0

\* the answer has a falsy status flag, or a data object whose status is not
\* the literal "success"
PaymentNotSuccessful(r) ==
    \/ paystack[r].status \in {Undefined, Bool(FALSE)}
    \/ (paystack[r].data.t = "object"
        /\ paystack[r].data.status \in {Undefined, Str("failed")})

\* C4: a validated request whose processor answer has a falsy status flag,
\* or a data object whose status is not "success", ends with the single
\* response 400 'Payment verification failed.' whatever the amount, and
\* issues no insert.
C4_FailedPaymentRejected ==
    \A r \in Requests :
        (Answered(r) /\ PaymentNotSuccessful(r)) =>
            /\ pc[r] = "done"
            /\ responses[r] = <<ErrorResponse(400, VerificationFailedMsg)>>
            /\ insertCalls[r] = 0
            /\ orders = <<>>

C4_Witness ==
    \E r \in Requests :
        /\ Answered(r)
        /\ paystack[r].status = Bool(TRUE)
        /\ paystack[r].data.status = Str("failed")
        /\ PaidInFull(r)
        /\ responses[r] = <<ErrorResponse(400, VerificationFailedMsg)>>

\* C5: when the store reports a write error on the insert (which is only
\* issued after verification and reconciliation passed), the request ends
\* with the single response 500 carrying the support-contact message.
C5_PersistFailureIs500 ==
    \A r \in Requests :
        storeResult[r] = "error" =>
            /\ pc[r] = "done"
            /\ StatusChecksPass(r)
            /\ ~Underpaid(r)
            /\ Len(responses[r]) = 1
            /\ responses[r][1].status = 500
            /\ responses[r][1].error = PersistFailedMsg
            /\ ~responses[r][1].ok

C5_Witness ==
    \E r \in Requests :
        /\ storeResult[r] = "error"
        /\ PaidInFull(r)
        /\ responses[r] = <<ErrorResponse(500, PersistFailedMsg)>>

\* C6: a valid request whose processor answer passes the status checks with
\* an amount equal to or above round(order.total * 100) issues exactly one
\* insert, and when the store reports no error it ends with the single
\* response 201 carrying the row the store returned, stored once.
C6_PaidOrderPersisted ==
    \A r \in Requests :
        (Handled(r) /\ ValidRequest(r) /\ StatusChecksPass(r) /\ PaidInFull(r)) =>
            /\ insertCalls[r] = 1
            /\ storeResult[r] = "stored" =>
                   /\ pc[r] = "done"
                   /\ Len(responses[r]) = 1
                   /\ responses[r][1].status = 201
                   /\ responses[r][1].ok
                   /\ Len(responses[r][1].order) = 1
                   /\ Cardinality({i \in 1..Len(orders) :
                                      orders[i] = responses[r][1].order[1]}) = 1
                   /\ responses[r][1].order[1].row = pendingRow[r][1]

C6_Witness ==
    \E r \in Requests :
        /\ ValidRequest(r)
        /\ StatusChecksPass(r)
        /\ request[r].order.total = Num(10)
        /\ paystack[r].data.amount = Num(Unit)
        /\ storeResult[r] = "stored"
        /\ responses[r][1].status = 201
        /\ Len(orders) = 1

\* a statement of the try block threw
ExceptionRaised(r) ==
    \/ paystack[r].kind \in {"fetch-throws", "json-throws", "null"}
    \/ (paystack[r].kind = "object" /\ Truthy(paystack[r].status)
        /\ paystack[r].data.t # "object")
    \/ storeResult[r] = "throws"

\* C7: every exception raised while a request is handled reaches the error
\* middleware and is answered with the single response 500 {ok: false,
\* error: 'Internal Server Error'}, which carries nothing of the exception.
C7_ExceptionsAnsweredGenerically ==
    \A r \in Requests :
        /\ ExceptionRaised(r) =>
               /\ pc[r] = "done"
               /\ thrown[r] # ""
               /\ responses[r] = <<ErrorResponse(500, InternalErrorMsg)>>
               /\ responses[r][1].error # thrown[r]
        /\ pc[r] = "done" => Len(responses[r]) = 1

C7_Witness ==
    \E r \in Requests :
        /\ thrown[r] = "insert-throws"
        /\ insertCalls[r] = 1
        /\ responses[r] = <<ErrorResponse(500, InternalErrorMsg)>>

\* the rows of the orders table stored for a reference
RowsOf(ref) == {i \in 1..Len(orders) : orders[i].row.payment_reference = ref}

\* the requests for a reference that the store answered with "stored"
StoredFor(ref) ==
    {r \in Requests : request[r].reference = ref /\ storeResult[r] = "stored"}

\* C8: the handler has no guard across requests: every request that passed
\* verification and reconciliation issues its own insert whatever the other
\* requests for the same reference did, and the table holds one row per
\* insert the store accepted, so a reference has a single row only if the
\* store accepted a single insert for it.
C8_NoGuardAcrossRequests ==
    /\ \A r \in Requests :
           (StatusChecksPass(r) /\ PaidInFull(r)) => insertCalls[r] = 1
    /\ \A ref \in ReferenceValues :
           Cardinality(RowsOf(ref)) = Cardinality(StoredFor(ref))

C8_Witness ==
    \E r1, r2 \in Requests :
        /\ r1 # r2
        /\ request[r1].reference = request[r2].reference
        /\ insertCalls[r1] = 1 /\ insertCalls[r2] = 1
        /\ storeResult[r1] = "stored" /\ storeResult[r2] = "stored"
        /\ Cardinality(RowsOf(request[r1].reference)) = 2

-----------------------------------------------------------------------------
(* Properties of the reservation status listener *)

\* an event has been delivered and its new record is present
EventHandled == event.hasNew

\* the new status is a string that, trimmed and lowercased, is st
NewStatusIs(st) ==
    event.newStatus.t = "string" /\ Trim(ToLowerCase(event.newStatus.c)) = st

TrackedStatuses == {CONFIRMED, COMPLETED, CANCELLED}

\* the fixed message of a tracked status
MessageOf(st) ==
    CASE st = CONFIRMED -> ConfirmedMessage
      [] st = COMPLETED -> CompletedMessage
      [] st = CANCELLED -> CancelledMessage

\* the old status is absent, or a string that normalizes to something else
\* than the new status does
OldStatusDiffers ==
    \/ ~event.hasOld
    \/ event.oldStatus.t \in {"undefined", "null"}
    \/ (event.oldStatus.t = "string"
        /\ Trim(ToLowerCase(event.oldStatus.c)) # Trim(ToLowerCase(event.newStatus.c)))

PhoneNonBlank ==
    event.phone.t = "string" /\ \E i \in 1..Len(event.phone.c) : ~IsSpace(event.phone.c[i])

\* the canonical form of the phone numbers of the model
CanonicalPhone(phone) ==
    CASE phone = PHONE_LOCAL0 -> PHONE_INTL
      [] phone = PHONE_SPACED -> PHONE_INTL
      [] phone = PHONE_INTL -> PHONE_INTL
      [] phone = PHONE_SHORT -> PHONE_SHORT

\* C9: for an event whose normalized new status is confirmed, completed or
\* cancelled, differs from the normalized old status, and whose phone is a
\* non-blank string, sendHubtelSMS is called exactly once, with the event's
\* phone and the fixed message of that status; at most one POST is issued,
\* exactly one when the credentials are configured, and its recipient is the
\* normalized phone (0244000000 becomes +233244000000).
C9_TrackedChangeDispatchedOnce ==
    \A st \in TrackedStatuses :
        (EventHandled /\ NewStatusIs(st) /\ OldStatusDiffers /\ PhoneNonBlank) =>
            /\ ~raised
            /\ dispatchCalls = <<[to |-> event.phone, message |-> Text(MessageOf(st))]>>
            /\ Len(httpPosts) = IF hubtelConfigured THEN 1 ELSE 0
            /\ \A i \in 1..Len(httpPosts) :
                   /\ httpPosts[i].To = CanonicalPhone(event.phone.c)
                   /\ httpPosts[i].Content = MessageOf(st)

C9_Witness ==
    /\ EventHandled
    /\ event.hasOld /\ event.oldStatus = Text(PENDING)
    /\ event.newStatus = Text(PADCONFIRMED)
    /\ event.phone = Text(PHONE_LOCAL0)
    /\ Len(dispatchCalls) = 1
    /\ httpPosts = <<[To |-> PHONE_INTL, Content |-> ConfirmedMessage]>>
    /\ smsResult = Success

\* the new status is absent, or is a string that after trim and lowercase
\* is none of confirmed, completed, cancelled
NewStatusUntracked ==
    \/ event.newStatus.t \in {"undefined", "null"}
    \/ (event.newStatus.t = "string"
        /\ Trim(ToLowerCase(event.newStatus.c)) \notin TrackedStatuses)

\* C10: for an event whose new status is absent or, normalized, is not a
\* tracked status, sendHubtelSMS is never called.
C10_UntrackedStatusNoDispatch ==
    (EventHandled /\ NewStatusUntracked) => dispatchCalls = <<>>

\* the old and the new status are strings that are equal once trimmed and
\* lowercased
StatusUnchanged ==
    /\ event.hasOld
    /\ event.oldStatus.t = "string"
    /\ event.newStatus.t = "string"
    /\ Trim(ToLowerCase(event.oldStatus.c)) = Trim(ToLowerCase(event.newStatus.c))

\* C11: for an event whose old and new status are equal after trimming and
\* lowercasing (also when they differ in case or surrounding whitespace),
\* sendHubtelSMS is never called and no POST is issued.
C11_UnchangedStatusNoDispatch ==
    (EventHandled /\ StatusUnchanged) =>
        /\ dispatchCalls = <<>>
        /\ httpPosts = <<>>
        /\ rpc = "idle"

C11_Witness ==
    /\ EventHandled
    /\ event.oldStatus = Text(UCONFIRMED)
    /\ event.newStatus = Text(PADCONFIRMED)
    /\ event.phone = Text(PHONE_LOCAL0)
    /\ hubtelConfigured
    /\ dispatchCalls = <<>>

\* C12: no exception escapes the callback, whatever the delivered event.
C12_ListenerNeverRaises == ~raised

\* the row carries the handler's bookkeeping fields for request r
Bookkeeping(row, r) ==
    /\ row.payment_reference = request[r].reference
    /\ row.status = Str("received")
    /\ row.seen = Bool(FALSE)

\* C18: every row handed to the store, and every row stored, has
\* payment_reference equal to the request's reference, status "received" and
\* seen false, also when the order sent its own values for these fields.
C18_RowBookkeepingOverridden ==
    /\ \A r \in Requests :
        pendingRow[r] # <<>> => Bookkeeping(pendingRow[r][1], r)
    /\ \A i \in 1..Len(orders) :
        \E r \in Requests :
            /\ storeResult[r] = "stored"
            /\ Bookkeeping(orders[i].row, r)

C18_Witness ==
    /\ pc[1] = "done"
    /\ request[1].order.status = Str("delivered")
    /\ request[1].order.payment_reference = Str("forged")
    /\ request[1].order.seen = Bool(TRUE)
    /\ Len(orders) = 1
    /\ orders[1].row.payment_reference = request[1].reference
    /\ orders[1].row.status = Str("received")

\* the terminal outcomes a response stands for
OutcomesOf(resp) ==
    {o \in {"Rejected-Input", "Rejected-Payment", "Rejected-AmountMismatch",
            "Persist-Failed", "Persisted", "Generic-500"} :
        \/ o = "Rejected-Input" /\ resp = ErrorResponse(400, InvalidOrderMsg)
        \/ o = "Rejected-Payment" /\ resp = ErrorResponse(400, VerificationFailedMsg)
        \/ o = "Rejected-AmountMismatch" /\ resp = ErrorResponse(400, AmountMismatchMsg)
        \/ o = "Persist-Failed" /\ resp = ErrorResponse(500, PersistFailedMsg)
        \/ o = "Persisted" /\ resp.status = 201 /\ resp.ok
        \/ o = "Generic-500" /\ resp = ErrorResponse(500, InternalErrorMsg)}

\* at every moment of request r: at most one response, sent exactly when the
\* handler ends and standing for exactly one terminal outcome; at most one
\* verification call and one insert; no insert before the processor answered
OneOutcome(r) ==
    /\ Len(responses[r]) = (IF pc[r] = "done" THEN 1 ELSE 0)
    /\ \A i \in 1..Len(responses[r]) : Cardinality(OutcomesOf(responses[r][i])) = 1
    /\ verifyCalls[r] <= 1
    /\ insertCalls[r] <= 1
    /\ insertCalls[r] = 1 => (verifyCalls[r] = 1 /\ paystack[r].kind = "object")

\* C19: provided each outbound call eventually returns or throws, every
\* request eventually reaches exactly one of the six terminal outcomes and
\* sends exactly one response, with at most one verification call and at most
\* one insert, the insert never before the verification response.
C19_EveryRequestEndsOnce ==
    /\ [](\A r \in {1} : OneOutcome(r))
    /\ \A r \in {1} : (pc[r] # "idle") ~> (pc[r] = "done" /\ Len(responses[r]) = 1)

C19_Witness ==
    /\ pc[1] = "done"
    /\ verifyCalls[1] = 1
    /\ insertCalls[1] = 1
    /\ thrown[1] = "insert-throws"
    /\ responses[1] = <<ErrorResponse(500, InternalErrorMsg)>>

-----------------------------------------------------------------------------
(* Properties of sendHubtelSMS *)

\* sendHubtelSMS was called with these arguments
SmsCalled == dispatchCalls # <<>>

\* the call has returned
SmsReturned == SmsCalled /\ rpc = "idle"

\* credentials absent, normalize(to) null, or message empty after trimming
PreconditionFails ==
    LET call == dispatchCalls[1]
    IN  \/ ~hubtelConfigured
        \/ formatPhoneNumber(call.to).t # "string"
        \/ call.message.t # "string"
        \/ Trim(call.message.c) = <<>>

\* a result { success: false, error } with an error string
FailureResult == ~smsResult.success /\ smsResult.error # "" /\ smsResult # NoResult

C14_Every2xxSucceeds ==
    (hubtelAnswer.kind = "response" /\ hubtelAnswer.ok) => smsResult.success

-----------------------------------------------------------------------------
(* Properties of formatPhoneNumber *)

\* str consists of exactly nine digits
NineDigits(str) == Len(str) = 9 /\ \A i \in 1..9 : IsDigit(str[i])

\* the input without its whitespace
Compact == SelectSeq(phoneInput.c, NotSpace)

\* the digit characters of the input behind its first non-blank character
DigitsBehindFirst == SelectSeq(Tail(Compact), IsDigit)

\* C15: every string d of exactly nine digits, also one beginning with 0 or
\* with 233, is formatted to +233 followed by d.
C15_NineDigitsPrefixed ==
    (formatted # NotComputed /\ phoneInput.t = "string" /\ NineDigits(phoneInput.c)) =>
        formatted = Text(<<"+", "2", "3", "3">> \o phoneInput.c)

C15_Witness ==
    /\ phoneInput = Text(<<"0", "3", "3", "0", "3", "0", "3", "0", "3">>)
    /\ formatted = Text(<<"+", "2", "3", "3", "0", "3", "3", "0", "3", "0", "3", "0", "3">>)

\* the input is +233 followed by exactly nine digits
International ==
    /\ phoneInput.t = "string"
    /\ Len(phoneInput.c) = 13
    /\ SubSeq(phoneInput.c, 1, 4) = <<"+", "2", "3", "3">>
    /\ NineDigits(SubSeq(phoneInput.c, 5, 13))

\* C16: +233 followed by exactly nine digits is returned unchanged, and so is
\* the result when it is formatted again.
C16_InternationalUnchanged ==
    International =>
        /\ formatted # NotComputed => formatted = phoneInput
        /\ reformatted # NotComputed => reformatted = phoneInput

C16_Witness ==
    /\ phoneInput = Text(<<"+", "2", "3", "3", "2", "3", "3", "0", "0", "3", "3", "0", "0">>)
    /\ formatted = phoneInput
    /\ reformatted = phoneInput

\* the input, without its whitespace, begins with 0 and has exactly nine
\* digit characters behind that 0
LocalNumber ==
    /\ phoneInput.t = "string"
    /\ Compact # <<>>
    /\ Head(Compact) = "0"
    /\ Len(DigitsBehindFirst) = 9

\* C17: an input that, whitespace removed, begins with 0 and has exactly nine
\* digit characters behind it is formatted to +233 followed by those nine
\* digits, the other characters dropped; no later rule applies to it.
C17_LocalNumberPrefixed ==
    (formatted # NotComputed /\ LocalNumber) =>
        formatted = Text(<<"+", "2", "3", "3">> \o DigitsBehindFirst)

C17_Witness ==
    /\ phoneInput = Text(<<"0", "2", "-", "2", "2", "2", "-", "2", "2", "2", "2", "2">>)
    /\ formatted = Text(<<"+", "2", "3", "3", "2", "2", "2", "2", "2", "2", "2", "2", "2">>)

\* both applications are done and the first gave a string
FormattedTwice ==
    /\ reformatted # NotComputed
    /\ formatted.t = "string"

\* C20 as stated: formatPhoneNumber(formatPhoneNumber(x)) = formatPhoneNumber(x)
\* for every x with a non-null result.
C20_IdempotentEverywhere == FormattedTwice => reformatted = formatted

\* the input, without its whitespace, has 12 characters, begins with 233 and
\* has exactly nine digit characters in all
Bare233WithNineDigits ==
    /\ Len(Compact) = 12
    /\ SubSeq(Compact, 1, 3) = <<"2", "3", "3">>
    /\ Len(SelectSeq(Compact, IsDigit)) = 9

\* C20 amended: formatPhoneNumber(formatPhoneNumber(x)) = formatPhoneNumber(x)
\* for every x with a non-null result, except the inputs that, whitespace
\* removed, have 12 characters, begin with 233 and hold exactly nine digits.
C20_IdempotentExceptBare233 ==
    (FormattedTwice /\ ~Bare233WithNineDigits) => reformatted = formatted

C20_Witness ==
    /\ phoneInput = Text(<<"2", "3", "3", "4", "a", "4", "a", "4", "a", "4", "a", "4">>)
    /\ formatted = Text(<<"+">> \o phoneInput.c)
    /\ reformatted = formatted

=============================================================================
